---------------------------- MODULE Spec2Model ----------------------------
(***************************************************************************)
(* A model of patrickdappollonio/dotenv: the .env parser of                *)
(* src/src/env_parser.rs and the environment merge of src/src/main.rs.     *)
(*                                                                         *)
(* A Rust `&str` / `String` is modelled as a sequence of one-character     *)
(* strings, so that every scan of the code (by character, by index) is a   *)
(* scan of the sequence.  Byte offsets of the code are 0-based; positions   *)
(* of the model are 1-based, and 0 stands for `None` where the code        *)
(* returns an Option<usize>.                                               *)
(***************************************************************************)
EXTENDS Integers, Sequences, FiniteSets, TLC

VARIABLES
    content,      \* parse_env_file: the text of the file behind its path argument
    fileState,    \* parse_env_file: "readable" | "unreadable" | "missing", the file
                  \* behind its path argument ("none" in main before its first call)
    cliCustom,    \* cli.envfile is Some(path): --file was given
    cliStrict,    \* cli.strict: --strict was given
    cliEnvironment, \* cli.environment is Some(name): --environment was given
    globalFile,   \* ~/.dotenv/NAME.env: [state, content]; state "nohome" when
                  \* there is no home directory to look in
    localFile,    \* the file of --file, or .env of the current directory
    loading,      \* main: the file parse_env_file was called for, "global" or
                  \* "local" ("none" outside such a call)
    env_vars_from_file, \* main: `env_vars_from_file` (line 45)
    pc,           \* the position of main / parse_env_file / parse_env_str
    lines,        \* parse_env_str: `lines`, the Vec<&str> of content.lines()
    i,            \* parse_env_str: the cursor `i` (0-based, as in the code)
    env_vars,     \* parse_env_str: the HashMap being filled
    result,       \* what parse_env_file returned: none yet, Ok(map) or Err
    caller,       \* "main": the program runs; "api": parse_env_file is called directly
    visited,      \* history: the values the cursor `i` had at the head of the loop
    env           \* the process environment (name -> value)

vars == <<content, fileState, cliCustom, cliStrict, cliEnvironment, globalFile,
          localFile, loading, env_vars_from_file, pc, lines, i, env_vars, result,
          caller, visited, env>>

---------------------------------------------------------------------------
(* Characters                                                              *)

BS   == "\\"
DQ   == "\""
SQ   == "'"
NL   == "\n"
TAB  == "\t"
CR   == "\r"
SP   == " "
EQ   == "="
HASH == "#"

\* char::is_whitespace, on the characters the model's texts can hold.
IsWhitespace(c) == c \in {SP, TAB, CR, NL}

---------------------------------------------------------------------------
(* str helpers of the standard library, as the code uses them              *)

RECURSIVE TrimStart(_)
TrimStart(s) ==
    IF s = <<>> THEN s
    ELSE IF IsWhitespace(Head(s)) THEN TrimStart(Tail(s)) ELSE s

RECURSIVE TrimEnd(_)
TrimEnd(s) ==
    IF s = <<>> THEN s
    ELSE IF IsWhitespace(s[Len(s)]) THEN TrimEnd(SubSeq(s, 1, Len(s) - 1)) ELSE s

\* str::trim
Trim(s) == TrimEnd(TrimStart(s))

\* str::starts_with(char) / str::ends_with(char)
StartsWith(s, c) == Len(s) >= 1 /\ s[1] = c
EndsWith(s, c) == Len(s) >= 1 /\ s[Len(s)] = c

\* str::ends_with("\\\\"): the text ends with two backslashes
EndsWithTwoBackslashes(s) == Len(s) >= 2 /\ s[Len(s)] = BS /\ s[Len(s) - 1] = BS

\* Position of the first occurrence of c in s at or after position p; 0 if none.
RECURSIVE FindFrom(_, _, _)
FindFrom(s, c, p) ==
    IF p > Len(s) THEN 0
    ELSE IF s[p] = c THEN p ELSE FindFrom(s, c, p + 1)

\* str::splitn(2, '='): <<before>> when there is no '=', else <<before, after>>
\* split at the first '='.
SplitN2(s) ==
    LET p == FindFrom(s, EQ, 1) IN
    IF p = 0 THEN <<s>>
    ELSE <<SubSeq(s, 1, p - 1), SubSeq(s, p + 1, Len(s))>>

\* One piece of str::lines: a piece that ends with "\n" loses it and then one
\* final "\r"; a last piece without "\n" is kept whole.
PieceLine(piece) ==
    IF EndsWith(piece, NL)
    THEN LET cut == SubSeq(piece, 1, Len(piece) - 1) IN
         IF EndsWith(cut, CR) THEN SubSeq(cut, 1, Len(cut) - 1) ELSE cut
    ELSE piece

Abs(n) == IF n < 0 THEN -n ELSE n

\* str::lines: the text is cut after every "\n" (split_inclusive) and each piece
\* becomes a line.  The cuts are made from the middle outwards, which gives the
\* same pieces as a cut from the left and keeps the evaluation shallow.
RECURSIVE Lines(_)
Lines(text) ==
    IF text = <<>> THEN <<>>
    ELSE LET inner == { p \in 1..(Len(text) - 1) : text[p] = NL } IN
         IF inner = {} THEN <<PieceLine(text)>>
         ELSE LET mid == Len(text) \div 2
                  p   == CHOOSE x \in inner :
                             \A y \in inner : Abs(x - mid) <= Abs(y - mid)
              IN Lines(SubSeq(text, 1, p)) \o Lines(SubSeq(text, p + 1, Len(text)))

---------------------------------------------------------------------------
(* env_parser.rs: the helpers of the parser                                *)

\* strip_inline_comment: the scan of line 75, from position p with the scan's
\* three locals.
RECURSIVE StripScan(_, _, _, _, _)
StripScan(line, p, in_quotes, quote_char, escaped) ==
    IF p > Len(line) THEN line
    ELSE LET ch == line[p] IN
         IF escaped THEN StripScan(line, p + 1, in_quotes, quote_char, FALSE)
         ELSE IF ch = BS /\ in_quotes
              THEN StripScan(line, p + 1, in_quotes, quote_char, TRUE)
         ELSE IF ch \in {DQ, SQ} /\ ~in_quotes
              THEN StripScan(line, p + 1, TRUE, ch, FALSE)
         ELSE IF in_quotes /\ ch = quote_char
              THEN StripScan(line, p + 1, FALSE, quote_char, FALSE)
         ELSE IF ch = HASH /\ ~in_quotes
              THEN TrimEnd(SubSeq(line, 1, p - 1))
         ELSE StripScan(line, p + 1, in_quotes, quote_char, FALSE)

\* A strip_inline_comment that cuts at the first '#', quoted or not.
strip_inline_comment_IgnoresQuotes(line) ==
    LET p == FindFrom(line, HASH, 1) IN
    IF p = 0 THEN line ELSE TrimEnd(SubSeq(line, 1, p - 1))

strip_inline_comment(line) == StripScan(line, 1, FALSE, DQ, FALSE)

\* find_unescaped_quote: the position of the first quote_char not preceded by an
\* escaping backslash; 0 for None.
RECURSIVE FindQuoteScan(_, _, _, _)
FindQuoteScan(s, quote_char, p, escaped) ==
    IF p > Len(s) THEN 0
    ELSE IF escaped THEN FindQuoteScan(s, quote_char, p + 1, FALSE)
    ELSE IF s[p] = BS THEN FindQuoteScan(s, quote_char, p + 1, TRUE)
    ELSE IF s[p] = quote_char THEN p
    ELSE FindQuoteScan(s, quote_char, p + 1, FALSE)

find_unescaped_quote(s, quote_char) == FindQuoteScan(s, quote_char, 1, FALSE)

\* process_escape_sequences: the characters the match of line 236 knows, and
\* what each pushes.
Escapable == {"n", "t", "r", BS, DQ, SQ}
Unescape(c) ==
    IF c = "n" THEN NL ELSE IF c = "t" THEN TAB ELSE IF c = "r" THEN CR ELSE c

\* A decoder that drops the backslash of an escape it does not know.
EscapeStep_DropsUnknown(s, p, st) ==
    IF st.skip THEN [acc |-> st.acc, skip |-> FALSE]
    ELSE LET ch == s[p] IN
         IF ch = BS /\ p + 1 <= Len(s)
         THEN IF s[p + 1] \in Escapable
              THEN [acc |-> Append(st.acc, Unescape(s[p + 1])), skip |-> TRUE]
              ELSE [acc |-> st.acc, skip |-> FALSE]
         ELSE [acc |-> Append(st.acc, ch), skip |-> FALSE]

\* process_escape_sequences, one iteration of the loop of line 233 on the
\* character at position p.  st.acc is `result`; st.skip says that the character
\* was already consumed by the `chars.next()` of a recognised escape.
EscapeStep(s, p, st) ==
    IF st.skip THEN [acc |-> st.acc, skip |-> FALSE]
    ELSE LET ch == s[p] IN
         IF ch = BS
         THEN IF p + 1 <= Len(s)
              THEN LET next_ch == s[p + 1] IN
                   IF next_ch \in Escapable
                   THEN [acc |-> Append(st.acc, Unescape(next_ch)), skip |-> TRUE]
                   ELSE [acc |-> Append(st.acc, ch), skip |-> FALSE]
              ELSE [acc |-> Append(st.acc, ch), skip |-> FALSE]
         ELSE [acc |-> Append(st.acc, ch), skip |-> FALSE]

\* The iterations at positions a..b, in order.  They are evaluated by halves, the
\* first half before the second (the test on `left` has it computed first), which
\* keeps the evaluation shallow on a long text.
RECURSIVE EscapeScan(_, _, _, _)
EscapeScan(s, a, b, st) ==
    IF a > b THEN st
    ELSE IF a = b THEN EscapeStep(s, a, st)
    ELSE LET m    == (a + b) \div 2
             left == EscapeScan(s, a, m, st)
         IN IF Len(left.acc) >= 0 THEN EscapeScan(s, m + 1, b, left) ELSE left

process_escape_sequences(s) ==
    EscapeScan(s, 1, Len(s), [acc |-> <<>>, skip |-> FALSE]).acc

\* strip_quotes
strip_quotes(s) ==
    LET trimmed == Trim(s) IN
    IF Len(trimmed) >= 2
       /\ (   (trimmed[1] = DQ /\ trimmed[Len(trimmed)] = DQ)
           \/ (trimmed[1] = SQ /\ trimmed[Len(trimmed)] = SQ))
    THEN SubSeq(trimmed, 2, Len(trimmed) - 1)
    ELSE trimmed

\* ends_with_unescaped_quote: the loop of line 304.  `k` is the code's `i` after
\* its decrement, so the code's chars[i - 1] is s[k] here.
RECURSIVE BackslashCount(_, _)
BackslashCount(s, k) ==
    IF k < 1 THEN 0
    ELSE IF s[k] = BS THEN 1 + BackslashCount(s, k - 1) ELSE 0

ends_with_unescaped_quote(s, quote_char) ==
    IF ~EndsWith(s, quote_char) THEN FALSE
    ELSE BackslashCount(s, Len(s) - 1) % 2 = 0


---------------------------------------------------------------------------
(* env_parser.rs: entries                                                  *)

\* Option<(String, String)> / Option<(String, String, usize)>
NoEntry == [some |-> FALSE]
SomeEntry(k, v, n) == [some |-> TRUE, key |-> k, value |-> v, consumed |-> n]

\* The safety checks of the two loops of parse_env_entry.
MultilineMaxIdx == 100
ContinuationMaxLines == 100

\* A parse_env_line that decodes the escapes of an unquoted value.
parse_env_line_UnescapesBare(line) ==
    LET split == SplitN2(line) IN
    IF Len(split) < 2 THEN NoEntry
    ELSE LET key == Trim(split[1])
             val == Trim(split[2])
         IN IF key = <<>> \/ val = <<>> THEN NoEntry
            ELSE IF    (StartsWith(val, DQ) /\ EndsWith(val, DQ))
                    \/ (StartsWith(val, SQ) /\ EndsWith(val, SQ))
                 THEN SomeEntry(key, process_escape_sequences(Trim(strip_quotes(val))), 1)
                 ELSE SomeEntry(key, process_escape_sequences(val), 1)

\* A parse_env_line that decodes the escapes of every value, quoted or not.
parse_env_line_AlwaysDecodes(line) ==
    LET split == SplitN2(line) IN
    IF Len(split) < 2 THEN NoEntry
    ELSE LET key == Trim(split[1])
             val == Trim(split[2])
         IN IF key = <<>> \/ val = <<>> THEN NoEntry
            ELSE SomeEntry(key, process_escape_sequences(Trim(strip_quotes(val))), 1)

\* parse_env_line: the entry of a single line (consumed = 1), or NoEntry.
parse_env_line(line) ==
    LET split == SplitN2(line) IN
    IF Len(split) < 2 THEN NoEntry
    ELSE LET key == Trim(split[1])
             val == Trim(split[2])
         IN IF key = <<>> \/ val = <<>> THEN NoEntry
            ELSE IF    (StartsWith(val, DQ) /\ EndsWith(val, DQ))
                    \/ (StartsWith(val, SQ) /\ EndsWith(val, SQ))
                 THEN SomeEntry(key, process_escape_sequences(Trim(strip_quotes(val))), 1)
                 ELSE SomeEntry(key, val, 1)

\* A multiline loop that strips the comment of every line it reads.
MultilineStep_StripsComments(rest, quote_char, idx, st) ==
    IF st.status # "run" THEN st
    ELSE LET line    == strip_inline_comment(rest[idx + 1])
             end_pos == find_unescaped_quote(line, quote_char)
         IN IF end_pos # 0
            THEN [status |-> "found",
                  value |-> st.value \o <<NL>> \o SubSeq(line, 1, end_pos - 1),
                  lines_consumed |-> st.lines_consumed + 1]
            ELSE [status |-> IF idx > MultilineMaxIdx THEN "abort" ELSE "run",
                  value |-> st.value \o <<NL>> \o line,
                  lines_consumed |-> st.lines_consumed + 1]

\* A multiline loop that trims the lines it appends.
MultilineStep_TrimsLines(rest, quote_char, idx, st) ==
    IF st.status # "run" THEN st
    ELSE LET line    == rest[idx + 1]
             end_pos == find_unescaped_quote(line, quote_char)
         IN IF end_pos # 0
            THEN [status |-> "found",
                  value |-> st.value \o <<NL>> \o Trim(SubSeq(line, 1, end_pos - 1)),
                  lines_consumed |-> st.lines_consumed + 1]
            ELSE [status |-> IF idx > MultilineMaxIdx THEN "abort" ELSE "run",
                  value |-> st.value \o <<NL>> \o Trim(line),
                  lines_consumed |-> st.lines_consumed + 1]

\* parse_env_entry, multiline quoted branch: one iteration of the loop of line
\* 149 over rest = lines[1..], at 0-based index idx.  st.status is "run" while
\* the loop runs, "found" after its break and "abort" after its `return None`.
MultilineStep(rest, quote_char, idx, st) ==
    IF st.status # "run" THEN st
    ELSE LET line    == rest[idx + 1]
             end_pos == find_unescaped_quote(line, quote_char)
         IN IF end_pos # 0
            THEN [status |-> "found",
                  value |-> st.value \o <<NL>> \o SubSeq(line, 1, end_pos - 1),
                  lines_consumed |-> st.lines_consumed + 1]
            ELSE [status |-> IF idx > MultilineMaxIdx THEN "abort" ELSE "run",
                  value |-> st.value \o <<NL>> \o line,
                  lines_consumed |-> st.lines_consumed + 1]

\* The iterations at indices a..b, in order, up to the one that leaves the loop
\* (evaluated by halves, the first half before the second).
RECURSIVE MultilineLoop(_, _, _, _, _)
MultilineLoop(rest, quote_char, a, b, st) ==
    IF a > b THEN st
    ELSE IF a = b THEN MultilineStep(rest, quote_char, a, st)
    ELSE LET m    == (a + b) \div 2
             left == MultilineLoop(rest, quote_char, a, m, st)
         IN IF left.status # "run" THEN left
            ELSE MultilineLoop(rest, quote_char, m + 1, b, left)

\* Lines 144-170.
MultilineEntry(key, initial_value, rest) ==
    LET st == MultilineLoop(rest, initial_value[1], 0, Len(rest) - 1,
                            [status |-> "run", value |-> Tail(initial_value),
                             lines_consumed |-> 1])
    IN IF st.status = "abort" THEN NoEntry
       ELSE SomeEntry(key, process_escape_sequences(st.value), st.lines_consumed)

\* The test of lines 174 and 183: ends with '\' and not with "\\".
EndsWithLoneBackslash(s) == EndsWith(s, BS) /\ ~EndsWithTwoBackslashes(s)

\* parse_env_entry, continuation branch: one iteration of the loop of line 179
\* over rest = lines[1..], at 1-based position k.  st.status is "run" while the
\* loop runs and "stop" after either break.
ContinuationStep(rest, k, st) ==
    IF st.status # "run" THEN st
    ELSE LET trimmed == Trim(rest[k]) IN
         IF EndsWithLoneBackslash(trimmed)
         THEN [status |-> IF st.lines_consumed + 1 > ContinuationMaxLines
                          THEN "stop" ELSE "run",
               value |-> st.value \o SubSeq(trimmed, 1, Len(trimmed) - 1),
               lines_consumed |-> st.lines_consumed + 1]
         ELSE [status |-> "stop",
               value |-> st.value \o trimmed,
               lines_consumed |-> st.lines_consumed + 1]

\* The iterations at positions a..b, in order, up to the one that leaves the
\* loop (evaluated by halves, the first half before the second).
RECURSIVE ContinuationLoop(_, _, _, _)
ContinuationLoop(rest, a, b, st) ==
    IF a > b THEN st
    ELSE IF a = b THEN ContinuationStep(rest, a, st)
    ELSE LET m    == (a + b) \div 2
             left == ContinuationLoop(rest, a, m, st)
         IN IF left.status # "run" THEN left
            ELSE ContinuationLoop(rest, m + 1, b, left)

\* A continuation that trims the first line's value once its backslash is off.
ContinuationEntry_TrimsFirst(key, initial_value, rest) ==
    LET st == ContinuationLoop(rest, 1, Len(rest),
                  [status |-> "run",
                   value |-> TrimEnd(SubSeq(initial_value, 1, Len(initial_value) - 1)),
                   lines_consumed |-> 1])
    IN SomeEntry(key, process_escape_sequences(st.value), st.lines_consumed)

\* Lines 175-197.
ContinuationEntry(key, initial_value, rest) ==
    LET st == ContinuationLoop(rest, 1, Len(rest),
                  [status |-> "run",
                   value |-> SubSeq(initial_value, 1, Len(initial_value) - 1),
                   lines_consumed |-> 1])
    IN SomeEntry(key, process_escape_sequences(st.value), st.lines_consumed)

\* The test of lines 140-141: the value opens a quote it does not close.
IsMultilineQuoted(initial_value) ==
    \/ (StartsWith(initial_value, DQ) /\ ~ends_with_unescaped_quote(initial_value, DQ))
    \/ (StartsWith(initial_value, SQ) /\ ~ends_with_unescaped_quote(initial_value, SQ))

\* parse_env_entry: the entry that starts on ls[1], with the lines after it as
\* lookahead.
parse_env_entry(ls) ==
    IF ls = <<>> THEN NoEntry
    ELSE LET first_line == Trim(ls[1])
             rest       == Tail(ls)
             split      == SplitN2(first_line)
         IN IF Len(split) < 2 THEN NoEntry
            ELSE LET key           == Trim(split[1])
                     initial_value == Trim(split[2])
                 IN IF key = <<>> THEN NoEntry
                    ELSE IF initial_value = <<>> THEN NoEntry
                    ELSE IF IsMultilineQuoted(initial_value)
                    THEN MultilineEntry(key, initial_value, rest)
                    ELSE IF EndsWithLoneBackslash(initial_value)
                    THEN ContinuationEntry(key, initial_value, rest)
                    ELSE parse_env_line(first_line)

---------------------------------------------------------------------------
(* env_parser.rs: parse_env_str, one iteration of its loop                 *)

\* An insert that keeps the value a key already has.
InsertIfAbsent(m, k, v) ==
    [x \in (DOMAIN m) \cup {k} |-> IF x \in DOMAIN m THEN m[x] ELSE v]

\* HashMap::new and HashMap::insert
EmptyMap == [k \in {} |-> <<>>]
Insert(m, k, v) == [x \in (DOMAIN m) \cup {k} |-> IF x = k THEN v ELSE m[x]]

\* lines[i].trim(), for the 0-based cursor i.
LineAt(ls, c) == Trim(ls[c + 1])

\* The comment-stripped, trimmed line of lines 45-46.
StrippedAt(ls, c) == Trim(strip_inline_comment(LineAt(ls, c)))

\* modified_lines of lines 54-55.
ModifiedLines(ls, c) == <<StrippedAt(ls, c)>> \o SubSeq(ls, c + 2, Len(ls))

\* Lines 33 and 39: the line is skipped before any parsing.
IsEmptyLine(ls, c) == LineAt(ls, c) = <<>>
IsCommentLine(ls, c) == ~IsEmptyLine(ls, c) /\ StartsWith(LineAt(ls, c), HASH)

\* What the iteration at cursor c parses: NoEntry for a skipped line (33, 39, 48)
\* and for a line parse_env_entry rejects.  modified_lines is built once (lines
\* 54-55) and then handed to parse_env_entry (line 58).
EntryAt(ls, c) ==
    IF IsEmptyLine(ls, c) \/ IsCommentLine(ls, c) THEN NoEntry
    ELSE IF StrippedAt(ls, c) = <<>> THEN NoEntry
    ELSE LET parsed == { parse_env_entry(modified_lines) :
                            modified_lines \in {ModifiedLines(ls, c)} }
         IN CHOOSE e \in parsed : TRUE

\* A cursor that also steps over the line after the entry it consumed.
NextCursorOneTooFar(ls, c) ==
    LET e == EntryAt(ls, c) IN IF e.some THEN c + e.consumed + 1 ELSE c + 1

\* A loop that gives up at the first line that holds no entry.
NextCursorStopsAtInvalid(ls, c) ==
    LET e == EntryAt(ls, c) IN IF e.some THEN c + e.consumed ELSE Len(ls)

\* The cursor after the iteration at cursor c.
NextCursor(ls, c) ==
    LET e == EntryAt(ls, c) IN IF e.some THEN c + e.consumed ELSE c + 1

\* The map after the iteration at cursor c.
NextMap(ls, c, m) ==
    LET e == EntryAt(ls, c) IN IF e.some THEN Insert(m, e.key, e.value) ELSE m

\* parse_env_str as a function: n iterations of the loop of line 29 from the
\* state st = [c |-> cursor, m |-> map] (evaluated by halves, the first half
\* before the second); an iteration past the end of the loop changes nothing.
LoopStep(ls, st) ==
    IF st.c >= Len(ls) THEN st
    ELSE [c |-> NextCursor(ls, st.c), m |-> NextMap(ls, st.c, st.m)]

RECURSIVE Iterate(_, _, _)
Iterate(ls, st, n) ==
    IF n <= 0 THEN st
    ELSE IF n = 1 THEN LoopStep(ls, st)
    ELSE LET half == Iterate(ls, st, n \div 2) IN
         IF half.c >= Len(ls) THEN half
         ELSE Iterate(ls, half, n - (n \div 2))

\* The loop run to its end: each iteration advances the cursor, so Len(ls)
\* iterations suffice.
RunLoop(ls, c, m) == Iterate(ls, [c |-> c, m |-> m], Len(ls) - c).m

parse_env_str(text) == RunLoop(Lines(text), 0, EmptyMap)


---------------------------------------------------------------------------
(* main.rs                                                                 *)

STRICT_WHITELIST ==
    { <<"P", "A", "T", "H">>,
      <<"H", "O", "M", "E">>,
      <<"S", "H", "E", "L", "L">>,
      <<"U", "S", "E", "R">>,
      <<"S", "H", "L", "V", "L">>,
      <<"L", "A", "N", "G">>,
      <<"T", "E", "R", "M">>,
      <<"L", "O", "G", "N", "A", "M", "E">>,
      <<"P", "W", "D">>,
      <<"O", "L", "D", "P", "W", "D">>,
      <<"E", "D", "I", "T", "O", "R">>,
      <<"V", "I", "S", "U", "A", "L">>,
      <<"D", "I", "S", "P", "L", "A", "Y">>,
      <<"H", "O", "S", "T", "N", "A", "M", "E">> }

\* str::to_lowercase, on the letters of the model's texts.
UpperCase == <<"A", "B", "C", "D", "E", "F", "G", "H", "I", "J", "K", "L", "M",
               "N", "O", "P", "Q", "R", "S", "T", "U", "V", "W", "X", "Y", "Z">>
LowerCase == <<"a", "b", "c", "d", "e", "f", "g", "h", "i", "j", "k", "l", "m",
               "n", "o", "p", "q", "r", "s", "t", "u", "v", "w", "x", "y", "z">>
ToLowerChar(c) ==
    IF \E n \in 1..26 : UpperCase[n] = c
    THEN LowerCase[CHOOSE n \in 1..26 : UpperCase[n] = c]
    ELSE c
to_lowercase(s) == [n \in 1..Len(s) |-> ToLowerChar(s[n])]

is_truthy(value) ==
    to_lowercase(value) \in { <<"1">>, <<"t">>, <<"t", "r", "u", "e">>, <<"y">>,
                              <<"y", "e", "s">> }

DOTENV_STRICT == <<"D", "O", "T", "E", "N", "V", "_", "S", "T", "R", "I", "C", "T">>

\* Lines 89-91: every entry of the local file inserted over the global file's.
MergeLocal(global_vars, local_vars) ==
    [k \in (DOMAIN global_vars) \cup DOMAIN local_vars |->
        IF k \in DOMAIN local_vars THEN local_vars[k] ELSE global_vars[k]]

\* `strict` after lines 94-100.
StrictMode(cli_strict, file_vars) ==
    \/ cli_strict
    \/ (DOTENV_STRICT \in DOMAIN file_vars /\ is_truthy(file_vars[DOTENV_STRICT]))

\* A strict mode in which a whitelisted ambient value wins over the file's.
NewEnvVars_AmbientWins(environment, file_vars) ==
    LET kept == (DOMAIN environment) \cap STRICT_WHITELIST IN
    [n \in kept \cup DOMAIN file_vars |->
        IF n \in kept THEN environment[n] ELSE file_vars[n]]

\* new_env_vars of lines 105-114: the whitelisted names the environment holds,
\* then every entry of the file inserted over them.
NewEnvVars(environment, file_vars) ==
    LET kept == (DOMAIN environment) \cap STRICT_WHITELIST IN
    [n \in kept \cup DOMAIN file_vars |->
        IF n \in DOMAIN file_vars THEN file_vars[n] ELSE environment[n]]

\* Lines 124-126: every entry of the file set into the environment.
SetAll(environment, file_vars) ==
    [n \in (DOMAIN environment) \cup DOMAIN file_vars |->
        IF n \in DOMAIN file_vars THEN file_vars[n] ELSE environment[n]]


---------------------------------------------------------------------------
(* The inputs of the model                                                 *)

\* Bounds of the inputs.
MaxLineLen   == 4   \* length of a free single line
MaxEscLen    == 4   \* length of the text between the quotes of an escape line
MaxQuotedLen == 3   \* length of the quoted text of a quoted line with a comment
MaxLines     == 3   \* number of lines of an input made of pool lines
LongSlack    == 2   \* how far the long inputs reach around the 100-line checks

SeqsUpTo(A, n) == UNION { [1..k -> A] : k \in 0..n }

\* A text made of the given lines, "\n" between them (joined by halves).
RECURSIVE JoinRange(_, _, _)
JoinRange(ls, a, b) ==
    IF a > b THEN <<>>
    ELSE IF a = b THEN ls[a]
    ELSE LET m == (a + b) \div 2 IN
         JoinRange(ls, a, m) \o <<NL>> \o JoinRange(ls, m + 1, b)
Join(ls) == JoinRange(ls, 1, Len(ls))

\* n copies of the line l.
Repeat(l, n) == [k \in 1..n |-> l]

\* Every single line over the characters the parser gives a meaning.
FreeAlphabet == {"a", EQ, HASH, SP, BS, DQ, SQ}
FreeContents == SeqsUpTo(FreeAlphabet, MaxLineLen)

\* K="<text>" for every text over the characters of the escape sequences.
EscAlphabet == {BS, "n", "t", "r", DQ, SQ, "x"}
EscBodies == SeqsUpTo(EscAlphabet, MaxEscLen)
EscLine(body) == <<"K", EQ, DQ>> \o body \o <<DQ>>
EscContents == { EscLine(body) : body \in EscBodies }

\* K=<q><text><q> followed by nothing, by a comment, or by a comment that holds
\* a quote.
QuotedAlphabet == {"a", HASH, SP, BS, DQ, SQ}
QuotedBodies == SeqsUpTo(QuotedAlphabet, MaxQuotedLen)
CommentTails == { <<>>, <<SP, HASH>>, <<SP, HASH, "c", DQ>>, <<SP, HASH, SQ, HASH>> }
QuotedLine(quote, body, tail) == <<"K", EQ, quote>> \o body \o <<quote>> \o tail
QuotedContents ==
    { QuotedLine(quote, body, tail) :
        quote \in {DQ, SQ}, body \in QuotedBodies, tail \in CommentTails }

\* Inputs of up to MaxLines lines, each one of the pool: lines that open, continue
\* and close quoted values and continuations, valid and invalid entries, blank
\* and comment lines.
PoolLines ==
    { <<"K", EQ, DQ, "a">>,
      <<"K", EQ, SQ, "a">>,
      <<"K", EQ, DQ>>,
      <<"K", EQ, DQ, HASH>>,
      <<"b", DQ>>,
      <<"b", SQ>>,
      <<"b", BS, DQ, "c">>,
      <<"b", HASH, "c", DQ>>,
      <<"K", EQ, "a", BS>>,
      <<SP, "b", SP, BS>>,
      <<"J", EQ, "b">>,
      <<"K", EQ, "c">>,
      <<"K", EQ>>,
      <<EQ, "a">>,
      <<"b">>,
      <<>>,
      <<HASH, "c">> }
PoolContents == { Join(ls) : ls \in SeqsUpTo(PoolLines, MaxLines) }

\* Inputs of up to MaxLines single-line entries with unquoted values that hold
\* the characters the parser gives a meaning: '=', quotes, backslashes, '#'.
BareLines ==
    { <<"J", EQ, "b">>,
      <<"K", EQ, "a", EQ, "b">>,
      <<SP, "L", SP, EQ, SP, "a", BS, "n", SP>>,
      <<"J", EQ, "a", BS, BS>>,
      <<"M", EQ, "a", BS, BS, BS>>,
      <<"K", EQ, "a", DQ, "b", SP, HASH, "c">>,
      <<"K", SQ, EQ, "a", SP, HASH, "b">>,
      <<"L", EQ, "a", SP, HASH, SP, "c">> }
BareContents == { Join(ls) : ls \in SeqsUpTo(BareLines, MaxLines) }

\* Long inputs around the safety checks of parse_env_entry: an opening line, an
\* optional line without '=', n filler entries, and an optional closing line.
OpenLine   == <<"K", EQ, DQ, "a">>
BadLine    == <<"b">>
FillerLine == <<"J", EQ, "b">>
CloseLine  == <<"c", DQ>>
ContLine   == <<"K", EQ, "a", BS>>
MoreLine   == <<"b", BS>>
LongCounts == (MultilineMaxIdx - LongSlack)..(MultilineMaxIdx + LongSlack + 1)
LongQuoted(n, bad, closed) ==
    <<OpenLine>> \o (IF bad THEN <<BadLine>> ELSE <<>>) \o Repeat(FillerLine, n)
                 \o (IF closed THEN <<CloseLine>> ELSE <<>>)
LongContinued(n) == <<ContLine>> \o Repeat(MoreLine, n) \o <<FillerLine>>
LongContents ==
    { Join(LongQuoted(n, bad, closed)) :
        n \in LongCounts, bad \in BOOLEAN, closed \in BOOLEAN }
    \cup { Join(LongContinued(n)) : n \in LongCounts }

\* The inputs of the repository's tests and of its documentation.
ExampleContinuation == <<"L", "O", "N", "G", EQ, "f", "o", "o", SP, BS, NL, "b", "a", "r">>
ExampleEscape == <<"M", "S", "G", EQ, DQ, "l", "i", "n", "e", "1", BS, "n", "l", "i", "n", "e", "2", DQ>>
ExampleComment == <<"K", "E", "Y", EQ, DQ, "a", SP, HASH, SP, "b", DQ, SP, HASH, SP, "r", "e", "a", "l", SP, "c", "o", "m", "m", "e", "n", "t">>
ExampleNested == <<"C", EQ, DQ, "e", SP, SQ, "H", SP, HASH, SP, "W", SQ, DQ, SP, SP, HASH, SP, "c">>
ExampleDuplicate == <<"K", "E", "Y", EQ, "f", "i", "r", "s", "t", NL, "K", "E", "Y", EQ, "s", "e", "c", "o", "n", "d", NL>>
ExampleInvalid == <<NL, SP, SP, "K", "E", "Y", EQ, "V", "A", "L", "U", "E", NL, SP, SP, "I", "N", "V", "A", "L", "I", "D", "L", "I", "N", "E", NL, SP, SP, "A", "N", "O", "T", "H", "E", "R", EQ, "G", "O", "O", "D", NL, SP, SP, "N", "O", "T", "H", "I", "N", "G", EQ, NL, SP, SP>>
ExampleEquals == <<"K", "E", "Y", EQ, "V", "A", "L", "U", "E", EQ, "W", "I", "T", "H", EQ, "E", "Q", "U", "A", "L", "S">>
ExampleSpaced == <<SP, SP, "K", "E", "Y", SP, SP, SP, SP, EQ, SP, SP, SP, SP, SP, "V", "A", "L", "U", "E">>
ExampleMultiline == <<SP, SP, "M", EQ, DQ, "o", "n", "e", NL, "t", "w", "o", NL, NL, "t", "h", "r", "e", "e", DQ, NL, NL, SP, SP, "R", EQ, "v", NL>>
ExampleCrLf == <<"A", EQ, "1", CR, NL, "B", EQ, "2", CR, NL>>
ExampleStrictTrue == <<"D", "O", "T", "E", "N", "V", "_", "S", "T", "R", "I", "C", "T", EQ, "t", "r", "u", "e", NL, "M", "Y", "V", "A", "R", EQ, "x", NL>>
ExampleStrictFalse == <<"D", "O", "T", "E", "N", "V", "_", "S", "T", "R", "I", "C", "T", EQ, "f", "a", "l", "s", "e", NL>>
ExamplePath == <<"P", "A", "T", "H", EQ, "/", "f", NL, "C", "U", "S", "T", "O", "M", "_", "V", "A", "R", EQ, "H", "e", "l", "l", "o", NL>>
ExampleContents ==
    { ExampleContinuation, ExampleEscape, ExampleComment, ExampleNested,
      ExampleDuplicate, ExampleInvalid, ExampleEquals, ExampleSpaced,
      ExampleMultiline, ExampleCrLf, ExampleStrictTrue, ExampleStrictFalse,
      ExamplePath }

\* The texts parse_env_file is called on directly.
ApiContents ==
    FreeContents \cup EscContents \cup QuotedContents \cup PoolContents
                 \cup BareContents \cup LongContents \cup ExampleContents

\* The texts of the file main loads.
MainContents ==
    { <<>>, ExampleStrictTrue, ExampleStrictFalse, ExamplePath, ExampleInvalid,
      <<HASH, "c", NL, NL, "H", "O", "M", "E", EQ, "f", NL, "K", EQ>>,
      <<"L", EQ, "2", NL>> }

\* The texts of the global file of --environment: one that shares no key with
\* the local files, one that turns strict mode on, one whose keys the local
\* files also set.
GlobalContents ==
    { <<"G", EQ, "1", NL>>,
      <<"D", "O", "T", "E", "N", "V", "_", "S", "T", "R", "I", "C", "T", EQ, "t", "r", "u", "e", NL, "G", EQ, "1", NL>>,
      <<"H", "O", "M", "E", EQ, "g", NL, "P", "A", "T", "H", EQ, "g", NL, "G", EQ, "1">> }

\* A file of main as the file system holds it.
File(state, text) == [state |-> state, content |-> text]
NoFile == File("missing", <<>>)
LocalFiles ==
    { File("readable", text) : text \in MainContents }
    \cup { File("unreadable", <<>>), NoFile }
GlobalFiles ==
    { File("readable", text) : text \in GlobalContents }
    \cup { File("unreadable", <<>>), NoFile, File("nohome", <<>>) }

\* The ambient environments of main: every subset of a few names, whitelisted or
\* not, and the environment that holds the whole whitelist.
UNSAFE_VAR == <<"U", "N", "S", "A", "F", "E", "_", "V", "A", "R">>
AmbientNames ==
    { <<"P", "A", "T", "H">>, <<"H", "O", "M", "E">>, <<"M", "Y", "V", "A", "R">>, <<"C", "U", "S", "T", "O", "M", "_", "V", "A", "R">>,
      UNSAFE_VAR }
AmbientValue == <<"s">>
AmbientEnvs ==
    { [n \in D |-> AmbientValue] : D \in SUBSET AmbientNames }
    \cup { [n \in STRICT_WHITELIST \cup {UNSAFE_VAR} |-> AmbientValue] }

---------------------------------------------------------------------------
(* The state machine                                                       *)

NoResult == [kind |-> "none"]
OkResult(m) == [kind |-> "Ok", map |-> m]
ErrResult == [kind |-> "Err"]

\* A direct call of parse_env_file, as the tests make it.
InitApi ==
    /\ caller = "api"
    /\ pc = "parse_env_file"
    /\ \/ content \in ApiContents /\ fileState = "readable"
       \/ content = <<>> /\ fileState \in {"unreadable", "missing"}
    /\ cliCustom = FALSE
    /\ cliStrict = FALSE
    /\ cliEnvironment = FALSE
    /\ globalFile = NoFile
    /\ localFile = NoFile
    /\ env = EmptyMap

\* A run of the program.
InitMain ==
    /\ caller = "main"
    /\ pc = "main"
    /\ content = <<>> /\ fileState = "none"
    /\ localFile \in LocalFiles
    /\ \/ cliEnvironment = TRUE /\ globalFile \in GlobalFiles
       \/ cliEnvironment = FALSE /\ globalFile = NoFile
    /\ cliCustom \in BOOLEAN
    /\ cliStrict \in BOOLEAN
    /\ env \in AmbientEnvs

Init ==
    /\ InitApi \/ InitMain
    /\ loading = "none"
    /\ env_vars_from_file = EmptyMap
    /\ lines = <<>>
    /\ i = 0
    /\ env_vars = EmptyMap
    /\ visited = {}
    /\ result = NoResult

\* main, lines 45-58: no --environment, env_vars_from_file starts empty.
MainNoEnvironment ==
    /\ pc = "main"
    /\ ~cliEnvironment
    /\ env_vars_from_file' = EmptyMap
    /\ pc' = "local"
    /\ UNCHANGED <<content, fileState, cliCustom, cliStrict, cliEnvironment,
                   globalFile, localFile, loading, lines, i, env_vars, result,
                   caller, visited, env>>

\* main, line 46, and get_named_env_file, line 194: no home directory, the error
\* is passed on with `?`.
MainBailNoHome ==
    /\ pc = "main"
    /\ cliEnvironment /\ globalFile.state = "nohome"
    /\ pc' = "failed"
    /\ UNCHANGED <<content, fileState, cliCustom, cliStrict, cliEnvironment,
                   globalFile, localFile, loading, env_vars_from_file, lines, i,
                   env_vars, result, caller, visited, env>>

\* main, lines 46 and 54-56, and get_named_env_file, lines 200-205: the named
\* file does not exist, env_vars_from_file starts empty.
MainNoGlobalFile ==
    /\ pc = "main"
    /\ cliEnvironment /\ globalFile.state = "missing"
    /\ env_vars_from_file' = EmptyMap
    /\ pc' = "local"
    /\ UNCHANGED <<content, fileState, cliCustom, cliStrict, cliEnvironment,
                   globalFile, localFile, loading, lines, i, env_vars, result,
                   caller, visited, env>>

\* main, lines 46-47: the named file exists and is handed to parse_env_file.
MainCallParseGlobal ==
    /\ pc = "main"
    /\ cliEnvironment /\ globalFile.state \in {"readable", "unreadable"}
    /\ loading' = "global"
    /\ content' = globalFile.content
    /\ fileState' = globalFile.state
    /\ pc' = "parse_env_file"
    /\ UNCHANGED <<cliCustom, cliStrict, cliEnvironment, globalFile, localFile,
                   env_vars_from_file, lines, i, env_vars, result, caller,
                   visited, env>>

\* main, lines 61-68: --file names a file that does not exist.
MainBailMissing ==
    /\ pc = "local"
    /\ cliCustom /\ localFile.state = "missing"
    /\ pc' = "failed"
    /\ UNCHANGED <<content, fileState, cliCustom, cliStrict, cliEnvironment,
                   globalFile, localFile, loading, env_vars_from_file, lines, i,
                   env_vars, result, caller, visited, env>>

\* main, lines 75-85 and 89-91: no --file and no .env in the current directory;
\* local_env_vars is empty and the merge adds nothing.
MainNoLocalFile ==
    /\ pc = "local"
    /\ ~cliCustom /\ localFile.state = "missing"
    /\ env_vars_from_file' = MergeLocal(env_vars_from_file, EmptyMap)
    /\ pc' = "merged"
    /\ UNCHANGED <<content, fileState, cliCustom, cliStrict, cliEnvironment,
                   globalFile, localFile, loading, lines, i, env_vars, result,
                   caller, visited, env>>

\* main, lines 69 and 80: the file exists and is handed to parse_env_file.
MainCallParse ==
    /\ pc = "local"
    /\ localFile.state # "missing"
    /\ loading' = "local"
    /\ content' = localFile.content
    /\ fileState' = localFile.state
    /\ result' = NoResult
    /\ pc' = "parse_env_file"
    /\ UNCHANGED <<cliCustom, cliStrict, cliEnvironment, globalFile, localFile,
                   env_vars_from_file, lines, i, env_vars, caller, visited, env>>

\* A parse_env_file that answers a failed read with Ok and an empty map.
ReadFailsAsEmptyMap ==
    /\ pc = "parse_env_file"
    /\ fileState # "readable"
    /\ result' = OkResult(EmptyMap)
    /\ pc' = IF caller = "main" THEN "merged" ELSE "returned"
    /\ UNCHANGED <<content, fileState, cliCustom, cliStrict, cliEnvironment,
                   globalFile, localFile, loading, env_vars_from_file, lines, i,
                   env_vars, caller, visited, env>>

\* parse_env_file, lines 8-9: read_to_string fails and the error is returned
\* (main passes it on with `?`).
ReadFails ==
    /\ pc = "parse_env_file"
    /\ fileState # "readable"
    /\ result' = ErrResult
    /\ pc' = IF caller = "main" THEN "failed" ELSE "returned"
    /\ UNCHANGED <<content, fileState, cliCustom, cliStrict, cliEnvironment,
                   globalFile, localFile, loading, env_vars_from_file, lines, i,
                   env_vars, caller, visited, env>>

\* parse_env_file, line 11, and parse_env_str, lines 25-27.
ReadOk ==
    /\ pc = "parse_env_file"
    /\ fileState = "readable"
    /\ lines' = Lines(content)
    /\ i' = 0
    /\ env_vars' = EmptyMap
    /\ visited' = {}
    /\ pc' = "parse_env_str"
    /\ UNCHANGED <<content, fileState, cliCustom, cliStrict, cliEnvironment,
                   globalFile, localFile, loading, env_vars_from_file,
                   result, caller, env>>

InLoop == pc = "parse_env_str" /\ i < Len(lines)

\* parse_env_str, lines 33-36.
SkipEmptyLine ==
    /\ InLoop
    /\ IsEmptyLine(lines, i)
    /\ i' = i + 1
    /\ visited' = visited \cup {i}
    /\ UNCHANGED <<content, fileState, cliCustom, cliStrict, cliEnvironment,
                   globalFile, localFile, loading, env_vars_from_file,
                   pc, lines, env_vars,
                   result, caller, env>>

\* parse_env_str, lines 39-42.
SkipCommentLine ==
    /\ InLoop
    /\ IsCommentLine(lines, i)
    /\ i' = i + 1
    /\ visited' = visited \cup {i}
    /\ UNCHANGED <<content, fileState, cliCustom, cliStrict, cliEnvironment,
                   globalFile, localFile, loading, env_vars_from_file,
                   pc, lines, env_vars,
                   result, caller, env>>

\* parse_env_str, lines 45-60: the line holds an entry, which is inserted.
InsertEntry ==
    /\ InLoop
    /\ ~IsEmptyLine(lines, i) /\ ~IsCommentLine(lines, i)
    /\ EntryAt(lines, i).some
    /\ env_vars' = NextMap(lines, i, env_vars)
    /\ i' = NextCursor(lines, i)
    /\ visited' = visited \cup {i}
    /\ UNCHANGED <<content, fileState, cliCustom, cliStrict, cliEnvironment,
                   globalFile, localFile, loading, env_vars_from_file,
                   pc, lines, result,
                   caller, env>>

\* parse_env_str, lines 48-51 and 61-63: the line holds no entry.
SkipInvalidLine ==
    /\ InLoop
    /\ ~IsEmptyLine(lines, i) /\ ~IsCommentLine(lines, i)
    /\ ~EntryAt(lines, i).some
    /\ env_vars' = NextMap(lines, i, env_vars)
    /\ i' = NextCursor(lines, i)
    /\ visited' = visited \cup {i}
    /\ UNCHANGED <<content, fileState, cliCustom, cliStrict, cliEnvironment,
                   globalFile, localFile, loading, env_vars_from_file,
                   pc, lines, result,
                   caller, env>>

\* parse_env_str, line 66.  In main the map returned is the global file's
\* (line 47), which env_vars_from_file becomes, or the local file's (lines 69
\* and 80), which is merged into it (lines 89-91).
ReturnOk ==
    /\ pc = "parse_env_str"
    /\ i >= Len(lines)
    /\ result' = OkResult(env_vars)
    /\ pc' = IF caller = "api" THEN "returned"
             ELSE IF loading = "global" THEN "local" ELSE "merged"
    /\ env_vars_from_file' =
          IF caller = "api" THEN env_vars_from_file
          ELSE IF loading = "global" THEN env_vars
          ELSE MergeLocal(env_vars_from_file, env_vars)
    /\ UNCHANGED <<content, fileState, cliCustom, cliStrict, cliEnvironment,
                   globalFile, localFile, loading, lines, i, env_vars, caller,
                   visited, env>>

\* main, lines 104-120: strict mode.
ApplyStrict ==
    /\ pc = "merged"
    /\ StrictMode(cliStrict, env_vars_from_file)
    /\ env' = NewEnvVars(env, env_vars_from_file)
    /\ pc' = "exec"
    /\ UNCHANGED <<content, fileState, cliCustom, cliStrict, cliEnvironment,
                   globalFile, localFile, loading, env_vars_from_file,
                   lines, i, env_vars,
                   result, caller, visited>>

\* main, lines 121-127: every variable of the file is injected.
ApplyNonStrict ==
    /\ pc = "merged"
    /\ ~StrictMode(cliStrict, env_vars_from_file)
    /\ env' = SetAll(env, env_vars_from_file)
    /\ pc' = "exec"
    /\ UNCHANGED <<content, fileState, cliCustom, cliStrict, cliEnvironment,
                   globalFile, localFile, loading, env_vars_from_file,
                   lines, i, env_vars,
                   result, caller, visited>>

Next ==
    \/ MainNoEnvironment
    \/ MainBailNoHome
    \/ MainNoGlobalFile
    \/ MainCallParseGlobal
    \/ MainBailMissing
    \/ MainNoLocalFile
    \/ MainCallParse
    \/ ReadFails
    \/ ReadOk
    \/ SkipEmptyLine
    \/ SkipCommentLine
    \/ InsertEntry
    \/ SkipInvalidLine
    \/ ReturnOk
    \/ ApplyStrict
    \/ ApplyNonStrict

Spec == Init /\ [][Next]_vars

\* One more run of the body of the loop of line 29, whatever the line holds: the
\* line under the cursor is visited, the cursor and the map take new values, and
\* the rest is left alone.  Every step of the four loop actions is such a run,
\* and their guards cover InLoop (lines 33, 39, 48 and 58 are one if/else chain),
\* so a run is possible exactly when InLoop holds.
LoopIteration ==
    /\ InLoop
    /\ pc' = pc
    /\ visited' = visited \cup {i}
    /\ (i' = i + 1 \/ i' \in Nat)
    /\ (env_vars' = env_vars \/ DOMAIN env_vars \subseteq DOMAIN env_vars')
    /\ UNCHANGED <<content, fileState, cliCustom, cliStrict, cliEnvironment,
                   globalFile, localFile, loading, env_vars_from_file,
                   lines, result,
                   caller, env>>

\* The program is sequential and nothing suspends it: while `i < lines.len()`
\* the loop body runs again, and once the loop is left line 66 returns.
FairSpec == Init /\ [][Next]_vars /\ WF_vars(LoopIteration) /\ WF_vars(ReturnOk)


---------------------------------------------------------------------------
(* The claims                                                              *)

\* What the claims say of a line, stated without the parser's own helpers.
HasEq(l) == \E p \in 1..Len(l) : l[p] = EQ
FirstEq(l) == CHOOSE p \in 1..Len(l) : l[p] = EQ /\ \A r \in 1..(p - 1) : l[r] # EQ
KeyText(l) == Trim(SubSeq(l, 1, FirstEq(l) - 1))
ValueText(l) == Trim(SubSeq(l, FirstEq(l) + 1, Len(l)))
HasChar(l, c) == \E p \in 1..Len(l) : l[p] = c
HasQuote(l) == HasChar(l, DQ) \/ HasChar(l, SQ)

\* The raw line under the cursor.
CurrentLine == lines[i + 1]

\* The map parse_env_str returns for the given lines.
ParseLines(ls) == RunLoop(ls, 0, EmptyMap)

\* The lines without the one at cursor c.
Without(ls, c) == SubSeq(ls, 1, c) \o SubSeq(ls, c + 2, Len(ls))

\* (C1) parse_env_str returns Ok for every text, an empty map when the text
\* holds no entry; the only error is parse_env_file's, when the file cannot be
\* read, and it carries no map.
C1_OnlyReadFails ==
    /\ result.kind = "Err" => (fileState # "readable" /\ DOMAIN result = {"kind"})
    /\ result.kind = "Ok" => fileState = "readable"
    /\ pc = "parse_env_str" => fileState = "readable"
    /\ pc = "returned" =>
          result.kind = (IF fileState = "readable" THEN "Ok" ELSE "Err")
    /\ pc = "failed" =>
          \/ result.kind = "Err"
          \/ cliCustom /\ localFile.state = "missing"
          \/ cliEnvironment /\ globalFile.state = "nohome"
    /\ (result.kind = "Ok" /\ \A c \in 0..(Len(lines) - 1) : ~EntryAt(lines, c).some)
          => result.map = EmptyMap

\* (C1) a text of malformed lines only was parsed: Ok, with an empty map.
C1_Witness ==
    /\ pc = "returned" /\ result.kind = "Ok"
    /\ \E c \in visited : LineAt(lines, c) # <<>> /\ ~IsCommentLine(lines, c)
    /\ result.map = EmptyMap

\* A line with no '=', with an empty key or with an empty value.
IsBadLine(l) == ~HasEq(l) \/ KeyText(l) = <<>> \/ ValueText(l) = <<>>

\* The line at cursor s opens a quoted value that the safety check of the
\* multiline loop abandons.
AbandonedAt(ls, s) ==
    /\ ~IsEmptyLine(ls, s) /\ ~IsCommentLine(ls, s)
    /\ LET l == StrippedAt(ls, s) IN
          /\ HasEq(l) /\ KeyText(l) # <<>> /\ ValueText(l) # <<>>
          /\ IsMultilineQuoted(ValueText(l))
    /\ ~EntryAt(ls, s).some

\* The line at cursor c is one of the lines that loop scanned before it gave up.
NearAbandonedQuote(ls, c) ==
    \E s \in 0..(c - 1) : c - s <= MultilineMaxIdx + 2 /\ AbandonedAt(ls, s)

\* (C2, as claimed) a bad line under the cursor adds no entry, consumes one line,
\* and the text parses to the same map with and without it.
C2_Original ==
    (InLoop /\ IsBadLine(LineAt(lines, i))) =>
        /\ ~EntryAt(lines, i).some
        /\ NextCursor(lines, i) = i + 1
        /\ ParseLines(Without(lines, i)) = ParseLines(lines)

\* (C2, amended) a bad line under the cursor adds no entry and consumes one line:
\* the lines the cursor passed kept their entries and the next line is parsed
\* next; the text parses to the same map with and without the bad line, unless
\* the line is one of the 102 lines after a line that opened a quoted value the
\* safety check abandoned.
C2_BadLineSkipped ==
    /\ (InLoop /\ IsBadLine(LineAt(lines, i))) =>
          /\ ~EntryAt(lines, i).some
          /\ NextCursor(lines, i) = i + 1
          /\ ~NearAbandonedQuote(lines, i) =>
                ParseLines(Without(lines, i)) = ParseLines(lines)
    /\ \A c \in visited :
          IsBadLine(LineAt(lines, c)) => (c + 1 \in visited \/ c + 1 = i)

\* (C2) a bad line is under the cursor, after a recorded entry and before a line
\* that holds one.
C2_Witness ==
    /\ InLoop /\ IsBadLine(LineAt(lines, i)) /\ LineAt(lines, i) # <<>>
    /\ env_vars # EmptyMap
    /\ i + 1 < Len(lines) /\ EntryAt(lines, i + 1).some

Max(S) == CHOOSE x \in S : \A y \in S : y <= x

\* The cursors passed so far at which an entry for key k was parsed.
EntriesFor(k) == { c \in visited : EntryAt(lines, c).some /\ EntryAt(lines, c).key = k }

\* (C3) the map holds exactly the keys of the entries parsed so far, each with the
\* value of the last entry parsed for it; a line that holds no entry changes
\* nothing.
C3_LastEntryWins ==
    pc \in {"parse_env_str", "returned", "merged", "exec"} =>
        /\ \A c \in visited : EntryAt(lines, c).some => EntryAt(lines, c).key \in DOMAIN env_vars
        /\ \A k \in DOMAIN env_vars :
              /\ EntriesFor(k) # {}
              /\ env_vars[k] = EntryAt(lines, Max(EntriesFor(k))).value
        /\ result.kind = "Ok" => result.map = env_vars

\* (C3) two entries for one key with different values were parsed, and after them
\* an invalid line for the same key.
C3_Witness ==
    /\ pc = "returned"
    /\ \E c1, c2, c3 \in visited :
          /\ c1 < c2 /\ c2 < c3
          /\ EntryAt(lines, c1).some /\ EntryAt(lines, c2).some
          /\ EntryAt(lines, c1).key = EntryAt(lines, c2).key
          /\ EntryAt(lines, c1).value # EntryAt(lines, c2).value
          /\ ~EntryAt(lines, c3).some
          /\ HasEq(LineAt(lines, c3))
          /\ KeyText(LineAt(lines, c3)) = EntryAt(lines, c1).key
          /\ result.map[EntryAt(lines, c1).key] = EntryAt(lines, c2).value

\* A KEY=VALUE line with no quotes and no comment: it has a '=', a key and a value.
IsPlainEntryLine(l) ==
    /\ ~HasQuote(l) /\ ~HasChar(l, HASH)
    /\ HasEq(l) /\ KeyText(l) # <<>> /\ ValueText(l) # <<>>

\* The text ends with exactly one backslash.
EndsWithOneBackslash(v) ==
    /\ Len(v) >= 1 /\ v[Len(v)] = BS
    /\ (Len(v) >= 2 => v[Len(v) - 1] # BS)

\* (C4, as claimed) every plain KEY=VALUE line yields its trimmed key with its
\* trimmed value, literally.
C4_Original ==
    (InLoop /\ IsPlainEntryLine(CurrentLine)) =>
        EntryAt(lines, i) = SomeEntry(KeyText(CurrentLine), ValueText(CurrentLine), 1)

\* (C4, amended) a plain KEY=VALUE line whose value does not end in a lone
\* backslash yields its trimmed key with its trimmed value, literally: cut at
\* the first '=', no escape decoded, one line consumed.
C4_PlainEntryLiteral ==
    (InLoop /\ IsPlainEntryLine(CurrentLine)
            /\ ~EndsWithOneBackslash(ValueText(CurrentLine))) =>
        EntryAt(lines, i) = SomeEntry(KeyText(CurrentLine), ValueText(CurrentLine), 1)

\* (C4) a plain line whose value holds an escape sequence was recorded literally.
C4_Witness ==
    /\ pc = "parse_env_str" /\ i > 0 /\ (i - 1) \in visited
    /\ IsPlainEntryLine(lines[i])
    /\ \E p \in 1..(Len(lines[i]) - 1) : lines[i][p] = BS /\ lines[i][p + 1] = BS
    /\ KeyText(lines[i]) \in DOMAIN env_vars
    /\ env_vars[KeyText(lines[i])] = ValueText(lines[i])

\* The first quote of kind q in s that an even number of backslashes precedes;
\* 0 if there is none.
BackslashesBefore(s, p) ==
    Cardinality({ r \in 1..(p - 1) : \A t \in r..(p - 1) : s[t] = BS })
IsUnescapedAt(s, q, p) == s[p] = q /\ BackslashesBefore(s, p) % 2 = 0
FirstUnescaped(s, q) ==
    IF \E p \in 1..Len(s) : IsUnescapedAt(s, q, p)
    THEN CHOOSE p \in 1..Len(s) :
             IsUnescapedAt(s, q, p) /\ \A r \in 1..(p - 1) : ~IsUnescapedAt(s, q, r)
    ELSE 0

\* The value of line l opens with a quote that is closed on the line, and what
\* follows the closing quote is whitespace and a comment.
QuoteOf(l) == ValueText(l)[1]
AfterOpen(l) == Tail(ValueText(l))
ClosePos(l) == FirstUnescaped(AfterOpen(l), QuoteOf(l))
QuotedText(l) == SubSeq(AfterOpen(l), 1, ClosePos(l) - 1)
AfterClose(l) == SubSeq(AfterOpen(l), ClosePos(l) + 1, Len(AfterOpen(l)))
IsQuotedWithComment(l) ==
    /\ HasEq(l) /\ KeyText(l) # <<>> /\ ~HasQuote(KeyText(l)) /\ ~HasChar(KeyText(l), HASH)
    /\ ValueText(l) # <<>> /\ QuoteOf(l) \in {DQ, SQ}
    /\ ClosePos(l) # 0
    /\ LET after == AfterClose(l) IN
          /\ after # <<>> /\ IsWhitespace(after[1])
          /\ TrimStart(after) # <<>> /\ TrimStart(after)[1] = HASH

\* (C5) on a line KEY=<quoted text> followed by whitespace and a comment, the
\* value is the quoted text (trimmed, escapes decoded) with every '#' it holds,
\* and nothing of the comment.
C5_QuotedHashKept ==
    (InLoop /\ IsQuotedWithComment(LineAt(lines, i))) =>
        EntryAt(lines, i) =
            SomeEntry(KeyText(LineAt(lines, i)),
                      process_escape_sequences(Trim(QuotedText(LineAt(lines, i)))), 1)

\* (C5) such a line was recorded, its quoted text holding a '#' inside a nested
\* quote of the other kind.
C5_Witness ==
    /\ pc = "parse_env_str" /\ i > 0 /\ (i - 1) \in visited
    /\ IsQuotedWithComment(Trim(lines[i]))
    /\ LET l == Trim(lines[i]) IN
          /\ \E p \in 2..(Len(QuotedText(l)) - 1) :
                /\ QuotedText(l)[p] = HASH
                /\ QuotedText(l)[p - 1] \in {DQ, SQ} \ {QuoteOf(l)}
          /\ KeyText(l) \in DOMAIN env_vars
          /\ HasChar(env_vars[KeyText(l)], HASH)


Min(S) == CHOOSE x \in S : \A y \in S : x <= y
DropLast(t) == SubSeq(t, 1, Len(t) - 1)

\* Escape decoding, position by position.  A character is consumed by the
\* backslash before it when it is one of n t r \ " ' and an odd number of
\* backslashes precedes it; every other character is emitted, a backslash that
\* consumes its successor as the character the pair stands for.
EscapeTargets == {"n", "t", "r", BS, DQ, SQ}
StandsFor(c) == IF c = "n" THEN NL ELSE IF c = "t" THEN TAB ELSE IF c = "r" THEN CR ELSE c
IsConsumed(t, p) == t[p] \in EscapeTargets /\ BackslashesBefore(t, p) % 2 = 1
Decoded(t) ==
    LET consumed == { p \in 1..Len(t) : IsConsumed(t, p) }
        pos(j) == CHOOSE p \in 1..Len(t) :
                      p \notin consumed /\ p - Cardinality({ q \in consumed : q < p }) = j
    IN [j \in 1..(Len(t) - Cardinality(consumed)) |->
           LET p == pos(j) IN
           IF (p + 1) \in consumed THEN StandsFor(t[p + 1]) ELSE t[p]]

\* The value v ends with an unescaped quote of kind q.
EndsUnescaped(v, q) == v[Len(v)] = q /\ BackslashesBefore(v, Len(v)) % 2 = 0

\* Line l is KEY=<q>... with no '#' on it.
OpensQuote(l, q) ==
    /\ ~HasChar(l, HASH) /\ HasEq(l) /\ KeyText(l) # <<>>
    /\ ValueText(l) # <<>> /\ ValueText(l)[1] = q

\* The value that opens on the line at cursor c never closes: no unescaped q
\* after the opening quote, on that line or on a later one.
NeverCloses(ls, c, q) ==
    /\ OpensQuote(LineAt(ls, c), q)
    /\ FirstUnescaped(Tail(ValueText(LineAt(ls, c))), q) = 0
    /\ \A k \in (c + 2)..Len(ls) : FirstUnescaped(ls[k], q) = 0

\* (C6) a value that opens with a quote and never closes leaves no entry, however
\* many lines follow the opening line.
C6_UnclosedDropped ==
    \A q \in {DQ, SQ} :
        (InLoop /\ NeverCloses(lines, i, q)) => ~EntryAt(lines, i).some

\* The line at cursor c starts a backslash continuation.
IsContinuationStart(l) ==
    /\ ~HasChar(l, HASH) /\ HasEq(l) /\ KeyText(l) # <<>>
    /\ ValueText(l) # <<>> /\ ValueText(l)[1] \notin {DQ, SQ}
    /\ EndsWithOneBackslash(ValueText(l))

\* The k-th line after cursor c, trimmed, and the piece it adds to the value.
Following(ls, c, k) == Trim(ls[c + 1 + k])
Piece(ls, c, k) ==
    IF EndsWithOneBackslash(Following(ls, c, k))
    THEN DropLast(Following(ls, c, k)) ELSE Following(ls, c, k)
RECURSIVE Pieces(_, _, _, _)
Pieces(ls, c, a, b) ==
    IF a > b THEN <<>>
    ELSE IF a = b THEN Piece(ls, c, a)
    ELSE Pieces(ls, c, a, (a + b) \div 2) \o Pieces(ls, c, ((a + b) \div 2) + 1, b)

\* The first following line with no trailing backslash; 0 if there is none.
FirstPlain(ls, c) ==
    LET cand == { k \in 1..(Len(ls) - c - 1) : ~EndsWith(Following(ls, c, k), BS) }
    IN IF cand = {} THEN 0 ELSE Min(cand)

\* The last line of the continuation: the first following line that does not end
\* in a lone backslash, the 100th following line, or the last line of the input.
LastContinued(ls, c) ==
    LET cand == { k \in 1..(Len(ls) - c - 1) :
                     ~EndsWithOneBackslash(Following(ls, c, k)) \/ k = ContinuationMaxLines }
    IN IF cand = {} THEN Len(ls) - c - 1 ELSE Min(cand)

FooBar == <<"f", "o", "o", "b", "a", "r">>
FooSpaceBar == <<"f", "o", "o", SP, "b", "a", "r">>
LONG == <<"L", "O", "N", "G">>

\* (C7, as claimed) the example yields LONG=foobar; a continuation's value is the
\* first value without its trailing backslash, then each following line trimmed
\* and without its trailing backslash, up to the first line with no trailing
\* backslash.
C7_Original ==
    /\ (pc = "returned" /\ content = ExampleContinuation) =>
          result.map = [k \in {LONG} |-> FooBar]
    /\ (InLoop /\ IsContinuationStart(LineAt(lines, i)) /\ FirstPlain(lines, i) # 0) =>
          EntryAt(lines, i) =
              SomeEntry(KeyText(LineAt(lines, i)),
                        DropLast(ValueText(LineAt(lines, i)))
                            \o Pieces(lines, i, 1, FirstPlain(lines, i)),
                        1 + FirstPlain(lines, i))

\* (C7, amended) the example yields LONG=foo bar: the first line's trimmed value
\* loses its trailing backslash and keeps the whitespace before it.  A
\* continuation's value is that text, then each following line trimmed and
\* without its lone trailing backslash, up to the first line that does not end
\* in a lone backslash, the 100th following line or the end of the input; its
\* escapes are then decoded.
C7_ContinuationJoined ==
    /\ (pc = "returned" /\ content = ExampleContinuation) =>
          result.map = [k \in {LONG} |-> FooSpaceBar]
    /\ (InLoop /\ IsContinuationStart(LineAt(lines, i))) =>
          EntryAt(lines, i) =
              SomeEntry(KeyText(LineAt(lines, i)),
                        Decoded(DropLast(ValueText(LineAt(lines, i)))
                                    \o Pieces(lines, i, 1, LastContinued(lines, i))),
                        1 + LastContinued(lines, i))

\* (C7) a continuation over two following lines was recorded, the whitespace
\* before a backslash kept.
C7_Witness ==
    /\ pc = "parse_env_str"
    /\ \E c \in visited :
          /\ IsContinuationStart(LineAt(lines, c))
          /\ LastContinued(lines, c) = 2
          /\ i = c + 3
          /\ Len(Piece(lines, c, 1)) >= 1
          /\ Piece(lines, c, 1)[Len(Piece(lines, c, 1))] = SP
          /\ env_vars[KeyText(LineAt(lines, c))] = EntryAt(lines, c).value
          /\ HasChar(env_vars[KeyText(LineAt(lines, c))], SP)

\* The line at cursor c is KEY=<q>text<q>, closed by its last character.
IsQuotedLine(l, q) ==
    /\ OpensQuote(l, q) /\ Len(ValueText(l)) >= 2 /\ EndsUnescaped(ValueText(l), q)

Line1NlLine2 == <<"l", "i", "n", "e", "1", NL, "l", "i", "n", "e", "2">>
MSG == <<"M", "S", "G">>

\* (C8) the value of a quoted line is the text between its outer quotes, trimmed
\* and decoded: \n \t \r \\ \" \' become newline, tab, carriage return, backslash
\* and the two quotes, and a backslash before another character or at the end
\* stays as it is; MSG="line1\nline2" yields line1, a newline, line2.
C8_EscapesDecoded ==
    /\ \A q \in {DQ, SQ} :
          (InLoop /\ IsQuotedLine(LineAt(lines, i), q)) =>
              EntryAt(lines, i) =
                  SomeEntry(KeyText(LineAt(lines, i)),
                            Decoded(Trim(DropLast(Tail(ValueText(LineAt(lines, i)))))), 1)
    /\ (pc = "returned" /\ content = ExampleEscape) =>
          result.map = [k \in {MSG} |-> Line1NlLine2]

\* (C8) a quoted line that holds a known escape and then an unknown one was
\* recorded: the first decoded, the second kept with its backslash.
C8_Witness ==
    /\ pc = "parse_env_str" /\ i = 1 /\ Len(lines) = 1
    /\ IsQuotedLine(LineAt(lines, 0), DQ)
    /\ Tail(ValueText(LineAt(lines, 0))) = <<BS, "n", BS, "x", DQ>>
    /\ env_vars[KeyText(LineAt(lines, 0))] = <<NL, BS, "x">>

\* The line at cursor c opens a multiline quoted value: the value starts with q
\* and does not end with an unescaped q.
IsMultilineStart(l, q) == OpensQuote(l, q) /\ ~EndsUnescaped(ValueText(l), q)

\* The first following line that holds an unescaped q; 0 if there is none.
ClosingLine(ls, c, q) ==
    LET cand == { k \in 1..(Len(ls) - c - 1) : FirstUnescaped(ls[c + 1 + k], q) # 0 }
    IN IF cand = {} THEN 0 ELSE Min(cand)

\* The text of the value closed on the k-th following line: the first line's
\* text after the opening quote, the lines between verbatim, and the closing
\* line up to its quote, a newline before each.
MultilineText(ls, c, q, k) ==
    Join(<<Tail(ValueText(LineAt(ls, c)))>>
         \o SubSeq(ls, c + 2, c + k)
         \o <<SubSeq(ls[c + 1 + k], 1, FirstUnescaped(ls[c + 1 + k], q) - 1)>>)

\* The entry the claim gives the value that opens at cursor c and closes on the
\* k-th following line.
MultilineClaimed(ls, c, q, k) ==
    SomeEntry(KeyText(LineAt(ls, c)), Decoded(MultilineText(ls, c, q, k)), 1 + k)

\* (C9, as claimed) a multiline quoted value closed on its k-th following line,
\* for any k >= 1, is stored as claimed and consumes 1 + k lines.
C9_Original ==
    \A q \in {DQ, SQ} :
        (InLoop /\ IsMultilineStart(LineAt(lines, i), q) /\ ClosingLine(lines, i, q) >= 1) =>
            /\ EntryAt(lines, i) = MultilineClaimed(lines, i, q, ClosingLine(lines, i, q))
            /\ NextCursor(lines, i) = i + 1 + ClosingLine(lines, i, q)

\* (C9, amended) a multiline quoted value closed on its k-th following line, for
\* 1 <= k <= 102, is the first line's text after the opening quote, then a
\* newline and each following line verbatim, the closing line cut before its
\* first unescaped quote, with escapes decoded; it consumes 1 + k lines: none of
\* the k lines is parsed on its own and the cursor resumes after the closing line.
C9_MultilineAssembled ==
    \A q \in {DQ, SQ} :
        /\ (InLoop /\ IsMultilineStart(LineAt(lines, i), q)
                   /\ ClosingLine(lines, i, q) \in 1..(MultilineMaxIdx + 2)) =>
              /\ EntryAt(lines, i) = MultilineClaimed(lines, i, q, ClosingLine(lines, i, q))
              /\ NextCursor(lines, i) = i + 1 + ClosingLine(lines, i, q)
        /\ \A c \in visited :
              (IsMultilineStart(LineAt(lines, c), q)
                  /\ ClosingLine(lines, c, q) \in 1..(MultilineMaxIdx + 2)) =>
                  /\ \A k \in 1..ClosingLine(lines, c, q) : (c + k) \notin visited
                  /\ i = c + 1 + ClosingLine(lines, c, q)
                        \/ (c + 1 + ClosingLine(lines, c, q)) \in visited

\* (C9) a value closed on its second following line was recorded, the line
\* between untrimmed or empty, and the cursor is on the line after the closing line.
C9_Witness ==
    /\ pc = "parse_env_str"
    /\ \E c \in visited :
          /\ IsMultilineStart(LineAt(lines, c), DQ)
          /\ ClosingLine(lines, c, DQ) = 2
          /\ lines[c + 2] # Trim(lines[c + 2])
          /\ i = c + 3
          /\ env_vars[KeyText(LineAt(lines, c))] = MultilineClaimed(lines, c, DQ, 2).value

\* The whitelist as the claim gives it.
ClaimedWhitelist ==
    { <<"P", "A", "T", "H">>, <<"H", "O", "M", "E">>, <<"S", "H", "E", "L", "L">>,
      <<"U", "S", "E", "R">>, <<"S", "H", "L", "V", "L">>, <<"L", "A", "N", "G">>,
      <<"T", "E", "R", "M">>, <<"L", "O", "G", "N", "A", "M", "E">>, <<"P", "W", "D">>,
      <<"O", "L", "D", "P", "W", "D">>, <<"E", "D", "I", "T", "O", "R">>,
      <<"V", "I", "S", "U", "A", "L">>, <<"D", "I", "S", "P", "L", "A", "Y">>,
      <<"H", "O", "S", "T", "N", "A", "M", "E">> }

\* The parsed file map main works with: what the file of --environment holds,
\* when it is given and exists, with what the local file holds laid over it.
ParsedFile(f) == IF f.state = "readable" THEN parse_env_str(f.content) ELSE EmptyMap
FileMap ==
    LET global == IF cliEnvironment THEN ParsedFile(globalFile) ELSE EmptyMap
        local  == ParsedFile(localFile)
    IN [k \in (DOMAIN global) \cup DOMAIN local |->
           IF k \in DOMAIN local THEN local[k] ELSE global[k]]

\* (C10) the step that builds the child's environment in strict mode leaves
\* exactly the whitelisted names the ambient environment held and the keys of
\* the file map; a key of the file has the file's value, every other name its
\* ambient value, and an ambient name neither whitelisted nor in the file is gone.
C10_StrictEnvironment ==
    [][(pc = "merged" /\ pc' = "exec" /\ StrictMode(cliStrict, FileMap)) =>
          /\ DOMAIN env' = ((DOMAIN env) \cap ClaimedWhitelist) \cup DOMAIN FileMap
          /\ \A n \in DOMAIN env' :
                env'[n] = IF n \in DOMAIN FileMap THEN FileMap[n] ELSE env[n]
          /\ \A n \in (DOMAIN env) \ (ClaimedWhitelist \cup DOMAIN FileMap) :
                n \notin DOMAIN env']_vars

\* (C10) strict mode ran on an ambient environment that held the whole whitelist
\* and UNSAFE_VAR, with a file that sets PATH and CUSTOM_VAR.
C10_Witness ==
    /\ pc = "exec" /\ cliStrict /\ content = ExamplePath
    /\ ClaimedWhitelist \subseteq DOMAIN env
    /\ env[<<"P", "A", "T", "H">>] = <<"/", "f">>
    /\ env[<<"H", "O", "M", "E">>] = AmbientValue
    /\ <<"C", "U", "S", "T", "O", "M", "_", "V", "A", "R">> \in DOMAIN env
    /\ UNSAFE_VAR \notin DOMAIN env


\* The line at cursor c is a single-line entry with an unquoted value: once its
\* comment is off it has a key and a value, and the value neither opens with a
\* quote nor ends in a lone backslash.
IsBareEntryLine(ls, c) ==
    /\ ~IsEmptyLine(ls, c) /\ ~IsCommentLine(ls, c)
    /\ LET l == StrippedAt(ls, c) IN
          /\ HasEq(l) /\ KeyText(l) # <<>> /\ ValueText(l) # <<>>
          /\ ValueText(l)[1] \notin {DQ, SQ}
          /\ ~EndsWithOneBackslash(ValueText(l))

\* Every order in which the entries of a map can be written.
Orders(m) ==
    { f \in [1..Cardinality(DOMAIN m) -> DOMAIN m] :
        \A a, b \in 1..Cardinality(DOMAIN m) : a # b => f[a] # f[b] }

\* The map written out, one KEY=VALUE line per entry, in the given order.
Serialised(m, order) ==
    Join([n \in 1..Len(order) |-> order[n] \o <<EQ>> \o m[order[n]]])

\* (C11) the map returned for an input made only of single-line entries with
\* unquoted values, written out as KEY=VALUE lines in any order and parsed
\* again, is the same map.
C11_RoundTrip ==
    (pc = "returned" /\ result.kind = "Ok"
        /\ \A c \in 0..(Len(lines) - 1) : IsBareEntryLine(lines, c)) =>
        \A order \in Orders(result.map) :
            parse_env_str(Serialised(result.map, order)) = result.map

\* (C11) such an input with two keys was parsed, one value holding a backslash,
\* a quote or a '='.
C11_Witness ==
    /\ pc = "returned" /\ result.kind = "Ok"
    /\ \A c \in 0..(Len(lines) - 1) : IsBareEntryLine(lines, c)
    /\ Cardinality(DOMAIN result.map) >= 2
    /\ \E k \in DOMAIN result.map :
          HasChar(result.map[k], BS) \/ HasQuote(result.map[k]) \/ HasEq(result.map[k])


\* The value that opens at cursor c has no unescaped q on any of the first n
\* lines after it, and the input has those n lines.
NoQuoteWithin(ls, c, q, n) ==
    /\ Len(ls) - c - 1 >= n
    /\ \A k \in 1..n : FirstUnescaped(ls[c + 1 + k], q) = 0

\* (C12) a multiline quoted value with no closing quote on the first 100 lines
\* after its opening line, and one on the 101st line or later, is aborted: no
\* entry, and the cursor moves on by one line.
C12_CapIsHundred ==
    \A q \in {DQ, SQ} :
        (InLoop /\ IsMultilineStart(LineAt(lines, i), q)
                /\ NoQuoteWithin(lines, i, q, MultilineMaxIdx)
                /\ ClosingLine(lines, i, q) > MultilineMaxIdx) =>
            /\ ~EntryAt(lines, i).some
            /\ NextCursor(lines, i) = i + 1

\* The number of consecutive backslashes the text ends with.
TrailingBackslashes(t) == BackslashesBefore(t, Len(t) + 1)

\* The line is KEY=VALUE with an unquoted value and no '#'.
IsUnquotedEntryLine(l) ==
    /\ ~HasChar(l, HASH) /\ HasEq(l) /\ KeyText(l) # <<>>
    /\ ValueText(l) # <<>> /\ ValueText(l)[1] \notin {DQ, SQ}

\* (C13) an unquoted value followed by another line is continued onto it exactly
\* when it ends with an odd number of backslashes, and so is the continuation
\* line onto the line after it.
C13_OddBackslashesContinue ==
    (InLoop /\ IsUnquotedEntryLine(LineAt(lines, i)) /\ i + 1 < Len(lines)) =>
        /\ EntryAt(lines, i).consumed >= 2
              <=> TrailingBackslashes(ValueText(LineAt(lines, i))) % 2 = 1
        /\ (TrailingBackslashes(ValueText(LineAt(lines, i))) % 2 = 1 /\ i + 2 < Len(lines)) =>
              (EntryAt(lines, i).consumed >= 3
                  <=> TrailingBackslashes(Following(lines, i, 1)) % 2 = 1)

\* The value of line l opens with q, and no later unescaped q at the end of the
\* line matches that opening quote.
OpensUnmatched(l, q) ==
    OpensQuote(l, q) /\ ~(Len(ValueText(l)) >= 2 /\ EndsUnescaped(ValueText(l), q))

\* (C14) a value that opens with a quote not matched at the end of its line is a
\* multiline quoted value, also when it is the opening quote alone: closed on one
\* of the following lines, it is assembled from those lines.
C14_LoneQuoteOpens ==
    \A q \in {DQ, SQ} :
        (InLoop /\ OpensUnmatched(LineAt(lines, i), q)
                /\ ClosingLine(lines, i, q) \in 1..(MultilineMaxIdx + 2)) =>
            EntryAt(lines, i) = MultilineClaimed(lines, i, q, ClosingLine(lines, i, q))

\* Line l is KEY=<q>text, the key free of quotes and '#', the text not empty and
\* with no unescaped q: the quote is open at the end of the line, whatever '#'
\* the text holds.
LeavesQuoteOpen(l, q) ==
    /\ HasEq(l) /\ KeyText(l) # <<>>
    /\ ~HasQuote(KeyText(l)) /\ ~HasChar(KeyText(l), HASH)
    /\ Len(ValueText(l)) >= 2 /\ ValueText(l)[1] = q
    /\ FirstUnescaped(Tail(ValueText(l)), q) = 0

\* The number of '#' in a text.
HashCount(t) == Cardinality({ p \in 1..Len(t) : t[p] = HASH })

\* (C15, as claimed) of a multiline quoted value only the '#' of the first line
\* are kept: a '#' on a later line of the value is stripped with what follows it.
C15_Original ==
    \A q \in {DQ, SQ} :
        (InLoop /\ LeavesQuoteOpen(LineAt(lines, i), q)
                /\ ClosingLine(lines, i, q) \in 1..(MultilineMaxIdx + 2)) =>
            /\ EntryAt(lines, i).some
            /\ HashCount(EntryAt(lines, i).value)
                  = HashCount(Tail(ValueText(LineAt(lines, i))))

\* (C15, amended) in a multiline quoted value every '#' is kept, on the first
\* line and on every later line up to the closing quote: the later lines are
\* appended verbatim, no comment is stripped from them, and only the text
\* after the closing quote is dropped.
C15_HashKeptOnEveryLine ==
    \A q \in {DQ, SQ} :
        (InLoop /\ LeavesQuoteOpen(LineAt(lines, i), q)
                /\ ClosingLine(lines, i, q) \in 1..(MultilineMaxIdx + 2)) =>
            /\ EntryAt(lines, i) = MultilineClaimed(lines, i, q, ClosingLine(lines, i, q))
            /\ HashCount(EntryAt(lines, i).value)
                  = HashCount(MultilineText(lines, i, q, ClosingLine(lines, i, q)))

\* (C15) a multiline value with a '#' on its first line and a '#' on its closing
\* line, before the quote, was recorded with both.
C15_Witness ==
    /\ pc = "parse_env_str"
    /\ \E c \in visited :
          /\ LeavesQuoteOpen(LineAt(lines, c), DQ)
          /\ ClosingLine(lines, c, DQ) = 1
          /\ i = c + 2
          /\ HasChar(Tail(ValueText(LineAt(lines, c))), HASH)
          /\ \E p \in 1..(FirstUnescaped(lines[c + 2], DQ) - 1) : lines[c + 2][p] = HASH
          /\ HashCount(env_vars[KeyText(LineAt(lines, c))]) = 2

\* (C16) the cursor stays within 0..number of lines and every line it visits is
\* a line of the input; each iteration of the loop moves it forward, by at least
\* one line and at most to the end of the input; and a parse that has started
\* returns.
C16_CursorProgress ==
    /\ [](i \in 0..Len(lines) /\ visited \subseteq 0..(Len(lines) - 1))
    /\ [](InLoop => NextCursor(lines, i) \in (i + 1)..Len(lines))
    /\ [][(pc = "parse_env_str" /\ pc' = "parse_env_str") =>
              (lines' = lines /\ i' >= i + 1 /\ i' <= Len(lines))]_vars
    /\ (pc = "parse_env_str") ~> (pc \in {"returned", "local", "merged"})

\* (C16) the parse of an input that ends inside an open quote has returned, the
\* cursor at the end of the input after an entry of several lines.
C16_Witness ==
    /\ pc = "returned" /\ i = Len(lines)
    /\ \E c \in visited :
          /\ NeverCloses(lines, c, DQ)
          /\ EntryAt(lines, c).some
          /\ EntryAt(lines, c).consumed >= 2
          /\ c + EntryAt(lines, c).consumed = Len(lines)

\* (C17) every value of the map parse_env_str returns is non-empty: an entry
\* whose value is empty is never in the returned map.
C17_ValuesNonEmpty ==
    result.kind = "Ok" => \A k \in DOMAIN result.map : result.map[k] # <<>>

=============================================================================
